---- MODULE Spec2Model ----
(***************************************************************************)
(* envparse: lookup and cast of environment variables with an optional     *)
(* schema (Env.__call__, Env.cast) and the .env loader (Env.read_envfile). *)
(*                                                                         *)
(* Python strings are sequences of one-character strings, so that split,   *)
(* strip, lower, the float clean-up and int()/float() parsing are computed *)
(* character by character as the code computes them.                       *)
(* Python values are records [t |-> <type name>, v |-> <payload>].         *)
(* The outcome of a call is [kind |-> "return", val |-> value] or          *)
(* [kind |-> "raise", val |-> <exception class name>].                     *)
(***************************************************************************)
EXTENDS Integers, Sequences, FiniteSets, TLC

VARIABLES environ, schema, last

vars == <<environ, schema, last>>

(***************************************************************************)
(* Bounds of the model.                                                    *)
(***************************************************************************)
\* longest generated input string of the cast specification
MaxLen == 3
\* scalars of the round trip: integers and decimal numerators in -MaxNum..MaxNum
MaxNum == 12
\* most digits after the decimal point of a round-trip decimal
MaxFrac == 2
\* longest definitions file, in lines
MaxLines == 2
\* deepest start directory of the .env search, in levels below the root
MaxDepth == 1

(***************************************************************************)
(* Characters and strings.                                                 *)
(***************************************************************************)
LowerLetters == <<"a","b","c","d","e","f","g","h","i","j","k","l","m",
                  "n","o","p","q","r","s","t","u","v","w","x","y","z">>
UpperLetters == <<"A","B","C","D","E","F","G","H","I","J","K","L","M",
                  "N","O","P","Q","R","S","T","U","V","W","X","Y","Z">>
DigitChars == <<"0","1","2","3","4","5","6","7","8","9">>

Range(s) == {s[i] : i \in 1..Len(s)}

IndexIn(seq, c) == CHOOSE i \in 1..Len(seq) : seq[i] = c

Digits == Range(DigitChars)
LowerSet == Range(LowerLetters)
UpperSet == Range(UpperLetters)

\* str.strip() with no argument strips whitespace
Whitespace == {" ", "\t", "\n"}

DigitVal(c) == IndexIn(DigitChars, c) - 1

LowerChar(c) == IF c \in UpperSet THEN LowerLetters[IndexIn(UpperLetters, c)] ELSE c

UpperChar(c) == IF c \in LowerSet THEN UpperLetters[IndexIn(LowerLetters, c)] ELSE c

\* str.lower()
Lower(s) == [i \in 1..Len(s) |-> LowerChar(s[i])]

\* str.upper()
Upper(s) == [i \in 1..Len(s) |-> UpperChar(s[i])]

RECURSIVE LStrip(_, _)
\* str.lstrip(chars)
LStrip(s, chars) ==
    IF s # <<>> /\ Head(s) \in chars THEN LStrip(Tail(s), chars) ELSE s

RECURSIVE RStrip(_, _)
\* str.rstrip(chars)
RStrip(s, chars) ==
    IF s # <<>> /\ s[Len(s)] \in chars THEN RStrip(SubSeq(s, 1, Len(s) - 1), chars) ELSE s

\* str.strip()
Strip(s) == RStrip(LStrip(s, Whitespace), Whitespace)

RECURSIVE SplitFrom(_, _, _)
SplitFrom(s, seps, cur) ==
    IF s = <<>> THEN <<cur>>
    ELSE IF Head(s) \in seps THEN <<cur>> \o SplitFrom(Tail(s), seps, <<>>)
    ELSE SplitFrom(Tail(s), seps, Append(cur, Head(s)))

\* str.split(sep) and re.split on a class of single characters: one more
\* segment than there are separators, empty segments kept
Split(s, seps) == SplitFrom(s, seps, <<>>)

RECURSIVE Join(_)
\* ''.join(parts)
Join(parts) == IF parts = <<>> THEN <<>> ELSE Head(parts) \o Join(Tail(parts))

\* str.startswith(prefix)
StartsWith(s, prefix) ==
    Len(s) >= Len(prefix) /\ SubSeq(s, 1, Len(prefix)) = prefix

RECURSIVE DigitsToNat(_)
DigitsToNat(ds) ==
    IF ds = <<>> THEN 0
    ELSE 10 * DigitsToNat(SubSeq(ds, 1, Len(ds) - 1)) + DigitVal(ds[Len(ds)])

RECURSIVE NatToDigits(_)
NatToDigits(n) ==
    IF n < 10 THEN <<DigitChars[n + 1]>>
    ELSE Append(NatToDigits(n \div 10), DigitChars[(n % 10) + 1])

RECURSIVE Pow10(_)
Pow10(k) == IF k = 0 THEN 1 ELSE 10 * Pow10(k - 1)

(***************************************************************************)
(* Python values and outcomes.                                             *)
(***************************************************************************)
PyStrV(s) == [t |-> "str", v |-> s]
PyIntV(n) == [t |-> "int", v |-> n]
PyBoolV(b) == [t |-> "bool", v |-> b]
PyNone == [t |-> "NoneType", v |-> "None"]
\* Env.NOTSET, the class that stands for "no default supplied"
NOTSET == [t |-> "type", v |-> "NoValue"]

RECURSIVE NormFloat(_, _)
\* the decimal num / 10^exp without trailing zeros in the fraction
NormFloat(num, exp) ==
    IF exp > 0 /\ num % 10 = 0 THEN NormFloat(num \div 10, exp - 1)
    ELSE <<num, exp>>

\* a float, kept as the exact decimal num / 10^exp it was written as
PyFloatV(num, exp) == [t |-> "float", v |-> NormFloat(num, exp)]

Return(v) == [kind |-> "return", val |-> v]
Raise(e) == [kind |-> "raise", val |-> e]

IsStr(x) == x.t = "str"

(***************************************************************************)
(* The builtins the code calls: str(), int(), float(), set(), list(),      *)
(* tuple(), dict(), each applied to one argument.                          *)
(***************************************************************************)
BuiltinType(n) == [t |-> "type", v |-> n]
bool == BuiltinType("bool")
int == BuiltinType("int")
float == BuiltinType("float")
str == BuiltinType("str")
list == BuiltinType("list")
tuple == BuiltinType("tuple")
set == BuiltinType("set")
dict == BuiltinType("dict")

\* str(n) of an integer
IntToStr(n) == IF n < 0 THEN <<"-">> \o NatToDigits(-n) ELSE NatToDigits(n)

RECURSIVE ZeroPad(_, _)
ZeroPad(ds, width) == IF Len(ds) >= width THEN ds ELSE ZeroPad(<<"0">> \o ds, width)

\* str(x) of a float num / 10^exp in the range repr() prints positionally
FloatToStr(f) ==
    LET num == f[1]
        exp == f[2]
        a == IF num < 0 THEN -num ELSE num
        sign == IF num < 0 THEN <<"-">> ELSE <<>>
        whole == NatToDigits(a \div Pow10(exp))
        frac == IF exp = 0 THEN <<"0">> ELSE ZeroPad(NatToDigits(a % Pow10(exp)), exp)
    IN  sign \o whole \o <<".">> \o frac

\* str(x)
PyStr(x) ==
    CASE x.t = "str" -> Return(x)
      [] x.t = "NoneType" -> Return(PyStrV(<<"N","o","n","e">>))
      [] x.t = "int" -> Return(PyStrV(IntToStr(x.v)))
      [] x.t = "bool" -> Return(PyStrV(IF x.v THEN <<"T","r","u","e">> ELSE <<"F","a","l","s","e">>))
      [] x.t = "float" -> Return(PyStrV(FloatToStr(x.v)))

\* the digits of an int() literal: digits, single underscores between them
IsIntBody(b) ==
    /\ b # <<>>
    /\ b[1] \in Digits /\ b[Len(b)] \in Digits
    /\ \A i \in 1..Len(b) : b[i] \in Digits \cup {"_"}
    /\ \A i \in 1..(Len(b) - 1) : ~(b[i] = "_" /\ b[i + 1] = "_")

\* int(s) of a string: surrounding whitespace, an optional sign, digits
ParseInt(s) ==
    LET w == Strip(s)
        signed == w # <<>> /\ Head(w) \in {"+", "-"}
        body == IF signed THEN Tail(w) ELSE w
        n == DigitsToNat(SelectSeq(body, LAMBDA c : c \in Digits))
    IN  IF ~IsIntBody(body) THEN Raise("ValueError")
        ELSE Return(PyIntV(IF signed /\ Head(w) = "-" THEN -n ELSE n))

\* int(x)
PyInt(x) ==
    CASE x.t = "str" -> ParseInt(x.v)
      [] x.t = "int" -> Return(x)
      [] x.t = "bool" -> Return(PyIntV(IF x.v THEN 1 ELSE 0))
      [] x.t = "float" ->
            Return(PyIntV(IF x.v[1] < 0 THEN -((-x.v[1]) \div Pow10(x.v[2]))
                          ELSE x.v[1] \div Pow10(x.v[2])))
      [] OTHER -> Raise("TypeError")

\* float(s) of a string of digits with at most one period and an optional
\* sign (the strings Env.cast hands it hold digits and one period at most)
ParseFloat(s) ==
    LET w == Strip(s)
        signed == w # <<>> /\ Head(w) \in {"+", "-"}
        body == IF signed THEN Tail(w) ELSE w
        parts == Split(body, {"."})
        whole == parts[1]
        frac == IF Len(parts) = 2 THEN parts[2] ELSE <<>>
        n == DigitsToNat(whole \o frac)
        ok == /\ Len(parts) <= 2
              /\ \A i \in 1..Len(whole) : whole[i] \in Digits
              /\ \A i \in 1..Len(frac) : frac[i] \in Digits
              /\ Len(whole) + Len(frac) > 0
    IN  IF ~ok THEN Raise("ValueError")
        ELSE Return(PyFloatV(IF signed /\ Head(w) = "-" THEN -n ELSE n, Len(frac)))

\* float(x)
PyFloat(x) ==
    CASE x.t = "str" -> ParseFloat(x.v)
      [] x.t = "float" -> Return(x)
      [] x.t = "int" -> Return(PyFloatV(x.v, 0))
      [] x.t = "bool" -> Return(PyFloatV(IF x.v THEN 1 ELSE 0, 0))
      [] OTHER -> Raise("TypeError")

\* bool(x): truth value
PyBool(x) ==
    CASE x.t = "bool" -> Return(x)
      [] x.t = "str" -> Return(PyBoolV(x.v # <<>>))
      [] x.t = "int" -> Return(PyBoolV(x.v # 0))
      [] x.t = "NoneType" -> Return(PyBoolV(FALSE))
      [] OTHER -> Return(PyBoolV(TRUE))

\* list(x), tuple(x): of a generator's items (kept as t = "items"), else of
\* the characters of a string
PySeq(kind, x) ==
    CASE x.t = "items" -> Return([t |-> kind, v |-> x.v])
      [] x.t = "str" -> Return([t |-> kind, v |-> [i \in 1..Len(x.v) |-> PyStrV(<<x.v[i]>>)]])
      [] x.t \in {"list", "tuple"} -> Return([t |-> kind, v |-> x.v])
      [] OTHER -> Raise("TypeError")

\* set(x): of the characters of a string; None and numbers are not iterable
PySet(x) ==
    CASE x.t = "str" -> Return([t |-> "set", v |-> {PyStrV(<<x.v[i]>>) : i \in 1..Len(x.v)}])
      [] x.t \in {"items", "list", "tuple"} -> Return([t |-> "set", v |-> Range(x.v)])
      [] x.t = "set" -> Return(x)
      [] OTHER -> Raise("TypeError")

\* dict(x)
PyDict(x) ==
    CASE x.t = "dict" -> Return(x)
      [] x.t = "str" -> IF x.v = <<>> THEN Return([t |-> "dict", v |-> <<>>]) ELSE Raise("ValueError")
      [] OTHER -> Raise("TypeError")

\* type_(value), subtype(value): the call of a builtin type on one argument
PyCall(f, x) ==
    CASE f = str -> PyStr(x)
      [] f = int -> PyInt(x)
      [] f = float -> PyFloat(x)
      [] f = bool -> PyBool(x)
      [] f = list -> PySeq("list", x)
      [] f = tuple -> PySeq("tuple", x)
      [] f = set -> PySet(x)
      [] f = dict -> PyDict(x)

(***************************************************************************)
(* Env.cast                                                                *)
(***************************************************************************)
BOOLEAN_TRUE_STRINGS ==
    { <<"t","r","u","e">>, <<"o","n">>, <<"o","k">>, <<"y">>, <<"y","e","s">>, <<"1">> }

\* type_ is bool: value.lower() in BOOLEAN_TRUE_STRINGS
CastBool(value) ==
    IF ~IsStr(value) THEN Raise("AttributeError")
    ELSE Return(PyBoolV(Lower(value.v) \in BOOLEAN_TRUE_STRINGS))

\* CleanFloat that keeps the digits only
CleanFloatDigitsOnly(s) == SelectSeq(s, LAMBDA c : c \in Digits)

\* re.sub(r'[^\d,\.]', '', value)
CleanFloat(s) == SelectSeq(s, LAMBDA c : c \in Digits \cup {",", "."})

\* type_ is float: drop every character but digits, commas and periods; the
\* last separator is the decimal point, the others group thousands
CastFloat(value) ==
    IF ~IsStr(value) THEN Raise("TypeError")
    ELSE LET parts == Split(CleanFloat(value.v), {",", "."})
             float_str == IF Len(parts) = 1 THEN parts[1]
                          ELSE Join(SubSeq(parts, 1, Len(parts) - 1)) \o <<".">> \o parts[Len(parts)]
         IN  PyFloat(PyStrV(float_str))

\* subtype(i.strip()) if subtype else i.strip()
ApplySubtype(subtype, s) ==
    IF subtype = PyNone THEN Return(PyStrV(Strip(s))) ELSE PyCall(subtype, PyStrV(Strip(s)))

RECURSIVE CastItems(_, _)
\* the generator of the list/tuple branch, consumed in order: the items, or
\* the first failure of subtype
CastItems(segs, subtype) ==
    IF segs = <<>> THEN Return([t |-> "items", v |-> <<>>])
    ELSE IF Head(segs) = <<>> THEN CastItems(Tail(segs), subtype)
    ELSE LET first == ApplySubtype(subtype, Head(segs))
             rest == CastItems(Tail(segs), subtype)
         IN  IF first.kind = "raise" THEN first
             ELSE IF rest.kind = "raise" THEN rest
             ELSE Return([t |-> "items", v |-> <<first.val>> \o rest.val.v])

\* issubclass(type_, list) or issubclass(type_, tuple)
IsSequenceType(type_) == type_ \in {list, tuple}

\* the list/tuple branch: value.split(','), empty segments dropped
CastSequence(value, subtype) ==
    IF ~IsStr(value) THEN Raise("AttributeError")
    ELSE CastItems(Split(value.v, {","}), subtype)

RECURSIVE CastPairs(_, _, _)
\* the dict comprehension: every segment must split on '=' into two
CastPairs(segs, subtype, acc) ==
    IF segs = <<>> THEN Return([t |-> "dict", v |-> acc])
    ELSE LET kv == Split(Head(segs), {"="})
             val == ApplySubtype(subtype, kv[2])
         IN  IF Len(kv) # 2 THEN Raise("ValueError")
             ELSE IF val.kind = "raise" THEN val
             ELSE CastPairs(Tail(segs), subtype, (Strip(kv[1]) :> val.val) @@ acc)

\* type_ is dict: for i in value.split(',') if value
CastDict(value, subtype) ==
    IF ~IsStr(value) THEN Raise("AttributeError")
    ELSE CastPairs(IF value.v = <<>> THEN <<>> ELSE Split(value.v, {","}), subtype, <<>>)

\* Env.cast(value, type_, subtype)
Cast(value, type_, subtype) ==
    LET parsed == CASE type_ = bool -> CastBool(value)
                    [] type_ = float -> CastFloat(value)
                    [] IsSequenceType(type_) -> CastSequence(value, subtype)
                    [] type_ = dict -> CastDict(value, subtype)
                    [] OTHER -> Return(value)
    IN  IF parsed.kind = "raise" THEN parsed ELSE PyCall(type_, parsed.val)

(***************************************************************************)
(* Env.__call__                                                            *)
(***************************************************************************)
\* a callable passed as preprocessor or postprocessor
Function(n) == [t |-> "function", v |-> n]
\* lambda v: v.upper()
upper == Function("upper")
\* lambda x: x + "_case"
add_case == Function("add_case")

\* preprocessor(value), postprocessor(value)
Apply(f, x) ==
    CASE f = upper ->
            IF IsStr(x) THEN Return(PyStrV(Upper(x.v))) ELSE Raise("AttributeError")
      [] f = add_case ->
            IF IsStr(x) THEN Return(PyStrV(x.v \o <<"_","c","a","s","e">>))
            ELSE Raise("TypeError")

\* params.get(key, otherwise) of a schema entry that is a dict
Get(params, key, otherwise) ==
    IF key \in DOMAIN params.v THEN params.v[key] ELSE otherwise

\* MergeSchema with the schema entry taking precedence over the arguments
MergeSchemaFirst(sch, var, default, type, subtype) ==
    LET params == sch[var]
        merged ==
            IF var \notin DOMAIN sch
            THEN [type |-> type, subtype |-> subtype, default |-> default]
            ELSE IF params.t = "dict"
            THEN [type |-> Get(params, "type", type),
                  subtype |-> Get(params, "subtype", subtype),
                  default |-> Get(params, "default", default)]
            ELSE [type |-> params, subtype |-> subtype, default |-> default]
    IN  [merged EXCEPT !.type = IF merged.type = PyNone THEN str ELSE merged.type]

\* lines 80-94: the parameters after the schema entry of var is merged in;
\* an argument the caller left at None (NOTSET for default) is filled
MergeSchema(sch, var, default, type, subtype) ==
    LET params == sch[var]
        merged ==
            IF var \notin DOMAIN sch
            THEN [type |-> type, subtype |-> subtype, default |-> default]
            ELSE IF params.t = "dict"
            THEN [type |-> IF type = PyNone THEN Get(params, "type", type) ELSE type,
                  subtype |-> IF subtype = PyNone THEN Get(params, "subtype", subtype)
                              ELSE subtype,
                  default |-> IF default = NOTSET THEN Get(params, "default", default)
                              ELSE default]
            ELSE [type |-> IF type = PyNone THEN params ELSE type,
                  subtype |-> subtype, default |-> default]
    IN  [merged EXCEPT !.type = IF merged.type = PyNone THEN str ELSE merged.type]

\* Lookup with None, not NOTSET, standing for "no default"
LookupNoneIsUnset(env, var, default) ==
    IF var \in DOMAIN env THEN Return(PyStrV(env[var]))
    ELSE IF default = PyNone THEN Raise("ConfigurationError")
    ELSE Return(default)

\* lines 96-103: os.environ[var], else the default, else ConfigurationError
Lookup(env, var, default) ==
    IF var \in DOMAIN env THEN Return(PyStrV(env[var]))
    ELSE IF default = NOTSET THEN Raise("ConfigurationError")
    ELSE Return(default)

\* the positional parameters of __call__ after self: var, default, type,
\* subtype, force, preprocessor, postprocessor
CallArity == 7

\* hasattr(value, 'startswith') and value.startswith('$')
IsProxied(value) == IsStr(value) /\ StartsWith(value.v, <<"$">>)

\* line 110-111
Preprocess(preprocessor, value) ==
    IF preprocessor # PyNone THEN Apply(preprocessor, value) ELSE Return(value)

\* CastUnlessDefault without the comparison with the default
CastAlways(value, default, force, type, subtype) == Cast(value, type, subtype)

\* lines 112-113
CastUnlessDefault(value, default, force, type, subtype) ==
    IF value # default \/ force THEN Cast(value, type, subtype) ELSE Return(value)

\* lines 114-115
Postprocess(postprocessor, value) ==
    IF postprocessor # PyNone THEN Apply(postprocessor, value) ELSE Return(value)

RECURSIVE EnvCall(_, _, _, _, _, _, _, _, _)
\* Env.__call__(var, default, type, subtype, force, preprocessor, postprocessor)
\* of an Env with schema sch, in environment env
EnvCall(env, sch, var, default, type, subtype, force, preprocessor, postprocessor) ==
    LET p == MergeSchema(sch, var, default, type, subtype)
        found == Lookup(env, var, p.default)
        \* lines 107-108: the positional arguments of the recursive call
        args == <<LStrip(found.val.v, {"$"}), p.default, p.type, p.subtype, p.default,
                  force, preprocessor, postprocessor>>
        resolved ==
            IF ~IsProxied(found.val) THEN found
            ELSE IF Len(args) > CallArity THEN Raise("TypeError")
            ELSE EnvCall(env, sch, args[1], args[2], args[3], args[4], args[5],
                         args[6], args[7])
        pre == IF resolved.kind = "raise" THEN resolved
               ELSE Preprocess(preprocessor, resolved.val)
        casted == IF pre.kind = "raise" THEN pre
                  ELSE CastUnlessDefault(pre.val, p.default, force, p.type, p.subtype)
        post == IF casted.kind = "raise" THEN casted
                ELSE Postprocess(postprocessor, casted.val)
    IN  IF found.kind = "raise" THEN found ELSE post

(***************************************************************************)
(* Env.read_envfile                                                        *)
(***************************************************************************)
\* no .env file in a directory
NoFile == [t |-> "NoFile", v |-> "NoFile"]

RECURSIVE FindEnvfile(_, _)
\* lines 182-196: the content of the .env file of directory d of the path
\* tree[1] (the root), ..., tree[d], else of the nearest ancestor that has
\* one; NoFile when the root is reached without finding any
FindEnvfile(tree, d) ==
    IF tree[d] # NoFile THEN tree[d]
    ELSE IF d > 1 THEN FindEnvfile(tree, d - 1)
    ELSE NoFile

RECURSIVE Replace(_, _, _)
\* str.replace(old, new) for a two-character old
Replace(w, old, new) ==
    IF Len(w) < 2 THEN w
    ELSE IF SubSeq(w, 1, 2) = old THEN new \o Replace(SubSeq(w, 3, Len(w)), old, new)
    ELSE <<Head(w)>> \o Replace(Tail(w), old, new)

\* re.match(r'[A-Za-z_][A-Za-z_0-9]*', name): a match at the start of name
NameMatches(name) ==
    name # <<>> /\ name[1] \in LowerSet \cup UpperSet \cup {"_"}

\* lines 200-210: the assignment a line makes, from the tokens shlex gives
\* for it (each token a string); <<>> for a line that is skipped
ParseLine(tokens) ==
    IF Len(tokens) < 3 THEN <<>>
    ELSE LET name == tokens[1]
             op == tokens[2]
             value == Join(SubSeq(tokens, 3, Len(tokens)))
         IN  IF op # <<"=">> THEN <<>>
             ELSE IF ~NameMatches(name) THEN <<>>
             ELSE <<name, Replace(Replace(value, <<"\\", "n">>, <<"\n">>),
                                  <<"\\", "t">>, <<"\t">>)>>

\* SetDefault as a plain assignment os.environ[name] = value
SetDefaultOverwrites(env, name, value) ==
    IF ~IsStr(value) THEN [environ |-> env, result |-> Raise("TypeError")]
    ELSE [environ |-> (name :> value.v) @@ env, result |-> Return(PyNone)]

\* os.environ.setdefault(name, value): an existing variable is kept; a new
\* one is set, and its value must be a str
SetDefault(env, name, value) ==
    IF name \in DOMAIN env THEN [environ |-> env, result |-> Return(PyNone)]
    ELSE IF ~IsStr(value) THEN [environ |-> env, result |-> Raise("TypeError")]
    ELSE [environ |-> (name :> value.v) @@ env, result |-> Return(PyNone)]

RECURSIVE LoadLines(_, _)
\* lines 199-211: the loop over the lines of the file
LoadLines(env, content) ==
    IF content = <<>> THEN env
    ELSE LET a == ParseLine(Head(content))
         IN  IF a = <<>> THEN LoadLines(env, Tail(content))
             ELSE LoadLines(SetDefault(env, a[1], PyStrV(a[2])).environ, Tail(content))

RECURSIVE LoadOverrides(_, _)
\* lines 213-214: the loop over the keyword arguments, in their order; the
\* first failure ends it
LoadOverrides(env, overrides) ==
    IF overrides = <<>> THEN [environ |-> env, result |-> Return(PyNone)]
    ELSE LET r == SetDefault(env, Head(overrides)[1], Head(overrides)[2])
         IN  IF r.result.kind = "raise" THEN r
             ELSE LoadOverrides(r.environ, Tail(overrides))

\* Env.read_envfile(path, **overrides), path the .env of directory d of tree
ReadEnvfile(env, tree, d, overrides) ==
    LET content == FindEnvfile(tree, d)
    IN  IF content = NoFile
        THEN [environ |-> env, result |-> Return(PyNone), warned |-> TRUE]
        ELSE LET r == LoadOverrides(LoadLines(env, content.v), overrides)
             IN  [environ |-> r.environ, result |-> r.result, warned |-> FALSE]

(***************************************************************************)
(* The state machine.  last is the call in progress with its outcome, or   *)
(* Idle between calls.                                                     *)
(***************************************************************************)
Idle == [op |-> "none"]

\* no call is in progress
Ready == last = Idle

\* the caller takes the outcome of the last call
Resume ==
    /\ ~Ready
    /\ last' = Idle
    /\ UNCHANGED <<environ, schema>>

RECURSIVE StringsUpTo(_, _)
StringsUpTo(alphabet, n) ==
    IF n = 0 THEN {<<>>}
    ELSE LET shorter == StringsUpTo(alphabet, n - 1)
         IN  shorter \cup {Append(w, c) : w \in shorter, c \in alphabet}

CastAlphabet == {"a", "1", ",", " ", "=", "."}

\* values of tests/test_casts.py env_vars
TestStrings ==
    { <<"f","o","o",",","b","a","r">>,
      <<" ","f","o","o",","," "," ","b","a","r">>,
      <<"1",",","2",",","3">>,
      <<" ","1",","," "," ","2",",","3">>,
      <<"k","1","=","v","1",","," ","k","2","=","v","2">>,
      <<"k","1","=","1",","," ","k","2","=","2">>,
      <<"3","3",".","3">>, <<"4","2">> }

Booleans == {PyBoolV(TRUE), PyBoolV(FALSE)}
SignedIntegers == {PyIntV(n) : n \in -MaxNum..MaxNum}
SignedDecimals == {PyFloatV(n, e) : n \in -MaxNum..MaxNum, e \in 0..MaxFrac}
Scalars == Booleans \cup SignedIntegers \cup SignedDecimals

\* str(x)
to_string(x) == PyStr(x).val

CastInputs ==
    {PyStrV(w) : w \in StringsUpTo(CastAlphabet, MaxLen) \cup TestStrings}
        \cup {to_string(x) : x \in Scalars}

Types == {str, int, float, bool, list, tuple, set, dict}
Subtypes == {PyNone, int, str}

\* Env.cast(value, type_, subtype) called by the program
CastCall(value, type_, subtype) ==
    /\ Ready
    /\ last' = [op |-> "cast", value |-> value, type |-> type_, subtype |-> subtype,
                result |-> Cast(value, type_, subtype)]
    /\ UNCHANGED <<environ, schema>>

\* names and values of tests/test_casts.py and tests/test_read_envfile.py
STR == <<"S","T","R">>
PROXIED == <<"P","R","O","X","I","E","D">>
NOT_PRESENT == <<"N","O","T","_","P","R","E","S","E","N","T">>
foo == <<"f","o","o">>
bar == <<"b","a","r">>
fortytwo == <<"4","2">>
proxy == <<"$","S","T","R">>
overwrite == <<"_","o","v","e","r","w","r","i","t","e">>

EnvNames == {STR, PROXIED}
EnvValues == {bar, fortytwo, proxy}

\* the host process sets a variable: os.environ[name] = value
Setenv(name, value) ==
    /\ Ready
    /\ environ' = (name :> value) @@ environ
    /\ UNCHANGED <<schema, last>>

DictRule(fields) == [t |-> "dict", v |-> fields]

\* the schemas an Env is constructed with
Schemas ==
    { <<>>,
      (STR :> int)
        @@ (PROXIED :> DictRule(("type" :> list) @@ ("subtype" :> int)
                                  @@ ("default" :> PyStrV(fortytwo))))
        @@ (NOT_PRESENT :> DictRule("default" :> PyStrV(foo))),
      (STR :> DictRule(("type" :> str) @@ ("preprocessor" :> upper)
                         @@ ("postprocessor" :> add_case)))
        @@ (NOT_PRESENT :> DictRule("type" :> int)) }

CallNames == EnvNames \cup {NOT_PRESENT}
Defaults == {NOTSET, PyNone, PyStrV(fortytwo), PyStrV(proxy), PyIntV(42)}
CallTypes == {PyNone} \cup Types
CallSubtypes == {PyNone, int}

\* env(var, default, type, subtype, force, preprocessor, postprocessor)
Call(var, default, type, subtype, force, preprocessor, postprocessor) ==
    /\ Ready
    /\ last' = [op |-> "call", var |-> var, default |-> default, type |-> type,
                subtype |-> subtype, force |-> force, preprocessor |-> preprocessor,
                postprocessor |-> postprocessor,
                result |-> EnvCall(environ, schema, var, default, type, subtype, force,
                                   preprocessor, postprocessor)]
    /\ UNCHANGED <<environ, schema>>

\* Env(**schema), then the module's use of it
Init ==
    /\ environ = <<>>
    /\ schema \in Schemas
    /\ last = Idle

Next ==
    \/ Ready /\ \E name \in EnvNames, value \in EnvValues : Setenv(name, value)
    \/ Ready /\ \E var \in CallNames, default \in Defaults, type \in CallTypes,
          subtype \in CallSubtypes, force \in BOOLEAN,
          preprocessor \in {PyNone, upper}, postprocessor \in {PyNone, add_case} :
            Call(var, default, type, subtype, force, preprocessor, postprocessor)
    \/ Resume

Spec == Init /\ [][Next]_vars

\* the lines of a definitions file, each as the tokens shlex gives for it
FileLines ==
    { <<STR, <<"=">>, foo>>,
      <<STR, <<"=">>, <<"4">>, <<"2">>>>,
      <<PROXIED, <<"=">>, <<"b","a","r","\\","n">>>>,
      <<PROXIED, <<"=">>, proxy>>,
      <<>>,
      <<STR, bar, foo>>,
      <<fortytwo, <<"=">>, foo>> }

RECURSIVE FilesUpTo(_)
FilesUpTo(n) ==
    IF n = 0 THEN {<<>>}
    ELSE LET shorter == FilesUpTo(n - 1)
         IN  shorter \cup {Append(f, l) : f \in shorter, l \in FileLines}

File(content) == [t |-> "File", v |-> content]

\* the directories from the root to the start directory: a .env file in the
\* root or none at all, the start directory up to MaxDepth levels below
Trees ==
    { <<f>> \o [i \in 1..k |-> NoFile] :
        f \in {File(c) : c \in FilesUpTo(MaxLines)} \cup {NoFile}, k \in 0..MaxDepth }

\* the keyword arguments of read_envfile, in the order given
OverrideSets ==
    { <<>>,
      << <<overwrite, PyBoolV(TRUE)>> >>,
      << <<STR, PyStrV(bar)>> >>,
      << <<overwrite, PyBoolV(TRUE)>>, <<PROXIED, PyStrV(fortytwo)>> >> }

\* env.read_envfile(path, **overrides)
ReadEnvfileCall(tree, overrides) ==
    /\ Ready
    /\ LET r == ReadEnvfile(environ, tree, Len(tree), overrides)
       IN  /\ environ' = r.environ
           /\ last' = [op |-> "read_envfile", tree |-> tree, overrides |-> overrides,
                       before |-> environ, result |-> r.result, warned |-> r.warned]
    /\ UNCHANGED schema

InitLoad ==
    /\ environ = <<>>
    /\ schema = <<>>
    /\ last = Idle

NextLoad ==
    \/ Ready /\ \E name \in EnvNames, value \in EnvValues : Setenv(name, value)
    \/ Ready /\ \E tree \in Trees, overrides \in OverrideSets : ReadEnvfileCall(tree, overrides)
    \/ Resume

SpecLoad == InitLoad /\ [][NextLoad]_vars

InitCast ==
    /\ environ = <<>>
    /\ schema = <<>>
    /\ last = Idle

NextCast ==
    \/ Ready /\ \E value \in CastInputs, type_ \in Types, subtype \in Subtypes :
            CastCall(value, type_, subtype)
    \/ Resume

SpecCast == InitCast /\ [][NextCast]_vars

(***************************************************************************)
(* Properties.                                                             *)
(***************************************************************************)
IsCall == last.op = "call"
IsLoad == last.op = "read_envfile"
IsCast == last.op = "cast"

\* the schema entry of var is a dict that has the key
RuleHas(var, key) ==
    var \in DOMAIN schema /\ schema[var].t = "dict" /\ key \in DOMAIN schema[var].v

\* the field of the schema entry of var, None when the entry has none
RuleField(var, key) ==
    IF RuleHas(var, key) THEN schema[var].v[key]
    ELSE IF var \in DOMAIN schema /\ schema[var].t = "type" /\ key = "type" THEN schema[var]
    ELSE PyNone

\* the default of the call, else the one of the schema entry, else NOTSET
SuppliedDefault ==
    IF last.default # NOTSET THEN last.default
    ELSE IF RuleHas(last.var, "default") THEN schema[last.var].v["default"]
    ELSE NOTSET

Absent == last.var \notin DOMAIN environ

\* C1: a call for a variable that is not in the environment, with no default
\* from the call nor from the schema, raises ConfigurationError, whatever
\* the type, subtype, force and processors are.
C1_UnsetWithoutDefaultRaises ==
    (IsCall /\ Absent /\ SuppliedDefault = NOTSET)
        => last.result = Raise("ConfigurationError")

C1_Witness ==
    /\ IsCall /\ Absent /\ SuppliedDefault = NOTSET
    /\ last.type = int /\ last.subtype = int /\ last.force
    /\ last.preprocessor = upper /\ last.postprocessor = add_case
    /\ last.result = Raise("ConfigurationError")

\* C2 as stated: a call for a variable that is not in the environment, with a
\* default d, force false and no processors returns d itself, for any d.
C2_DefaultReturnedUntouched_Original ==
    (IsCall /\ Absent /\ SuppliedDefault # NOTSET /\ ~last.force
        /\ last.preprocessor = PyNone /\ last.postprocessor = PyNone)
        => last.result = Return(SuppliedDefault)

\* C2: a call for a variable that is not in the environment, with a default d
\* that is not a string starting with '$', force false and no processors,
\* returns d itself, not cast, whatever type and subtype are requested.
C2_DefaultReturnedUntouched ==
    (IsCall /\ Absent /\ SuppliedDefault # NOTSET /\ ~IsProxied(SuppliedDefault)
        /\ ~last.force /\ last.preprocessor = PyNone /\ last.postprocessor = PyNone)
        => last.result = Return(SuppliedDefault)

C2_Witness ==
    /\ IsCall /\ Absent /\ last.default = PyNone /\ ~last.force
    /\ last.type = int /\ last.subtype = int
    /\ last.preprocessor = PyNone /\ last.postprocessor = PyNone
    /\ last.result = Return(PyNone)

\* C3: when the value of the variable is '$' followed by the name of a
\* variable that is set to a string not starting with '$', the call returns
\* what the call for that variable with the same arguments returns.
C3_ProxiedValueResolved ==
    (IsCall /\ ~Absent /\ StartsWith(environ[last.var], <<"$">>)
        /\ Tail(environ[last.var]) \in DOMAIN environ
        /\ ~StartsWith(environ[Tail(environ[last.var])], <<"$">>))
        => last.result = EnvCall(environ, schema, Tail(environ[last.var]), last.default,
                                 last.type, last.subtype, last.force,
                                 last.preprocessor, last.postprocessor)

\* the argument of the call when given, else the field of the schema entry
Effective(given, unset, key) ==
    IF given # unset THEN given ELSE
    IF key = "default" /\ ~RuleHas(last.var, "default") THEN NOTSET
    ELSE RuleField(last.var, key)

HasOverwriteFlag == \E i \in 1..Len(last.overrides) : last.overrides[i][1] = overwrite

\* C5: after a load without the overwrite flag every variable that was set
\* before the load has the value it had, and the same load done again
\* leaves the environment as it is.
C5_LoadKeepsExistingAndIsIdempotent ==
    (IsLoad /\ ~HasOverwriteFlag) =>
        /\ \A n \in DOMAIN last.before :
              n \in DOMAIN environ /\ environ[n] = last.before[n]
        /\ ReadEnvfile(environ, last.tree, Len(last.tree), last.overrides).environ = environ

C5_Witness ==
    /\ IsLoad /\ ~HasOverwriteFlag
    /\ last.tree = <<File(<< <<STR, <<"=">>, foo>>, <<PROXIED, <<"=">>, proxy>> >>)>>
    /\ STR \in DOMAIN last.before /\ last.before[STR] = bar
    /\ PROXIED \notin DOMAIN last.before
    /\ environ[STR] = bar /\ PROXIED \in DOMAIN environ /\ environ[PROXIED] = proxy

\* the assignments of the file that is loaded, in the order of its lines
Assignments ==
    LET content == FindEnvfile(last.tree, Len(last.tree)).v
    IN  SelectSeq([i \in 1..Len(content) |-> ParseLine(content[i])], LAMBDA a : a # <<>>)

\* C6: after a load with _overwrite=True, every variable that was set before
\* the load and that the file assigns has the value the file gives it.
C6_OverwriteReplaces ==
    (IsLoad /\ HasOverwriteFlag /\ ~last.warned) =>
        \A i \in 1..Len(Assignments) :
            (/\ Assignments[i][1] \in DOMAIN last.before
             /\ \A j \in (i + 1)..Len(Assignments) : Assignments[j][1] # Assignments[i][1])
                => environ[Assignments[i][1]] = Assignments[i][2]

\* C7: when the variable is set and its value cannot be converted by the
\* type or subtype in force, the call raises ConfigurationError.
C7_CastFailureIsConfigurationError ==
    LET p == MergeSchema(schema, last.var, last.default, last.type, last.subtype)
        value == PyStrV(environ[last.var])
    IN  (IsCall /\ ~Absent /\ ~IsProxied(value) /\ last.preprocessor = PyNone
            /\ (value # p.default \/ last.force)
            /\ Cast(value, p.type, p.subtype) = Raise("ValueError"))
            => last.result = Raise("ConfigurationError")

\* C8: when the schema entry of the variable is a dict with a preprocessor or
\* a postprocessor and the call passes none, the call returns the value it
\* returns when the processors of the schema entry are passed to it:
\* postprocessor(cast(preprocessor(raw))).
C8_SchemaProcessorsApplied ==
    LET processed == EnvCall(environ, schema, last.var, last.default, last.type,
                             last.subtype, last.force,
                             RuleField(last.var, "preprocessor"),
                             RuleField(last.var, "postprocessor"))
    IN  (IsCall /\ ~Absent /\ ~IsProxied(PyStrV(environ[last.var]))
            /\ (RuleHas(last.var, "preprocessor") \/ RuleHas(last.var, "postprocessor"))
            /\ last.preprocessor = PyNone /\ last.postprocessor = PyNone
            /\ processed.kind = "return")
            => last.result = processed

\* the cast of the string form of x with the type of x itself
IsRoundTripOf(x) ==
    IsCast /\ last.value = to_string(x) /\ last.type = BuiltinType(x.t)

\* C9 as stated: the cast of str(x) with the type of x returns x, for every
\* boolean, signed integer and signed decimal x.
C9_ScalarRoundTrip_Original ==
    \A x \in Scalars : IsRoundTripOf(x) => last.result = Return(x)

\* C9: the cast of str(x) with the type of x returns x for every boolean,
\* every signed integer and every decimal that is not negative; of a
\* negative decimal x the float cast returns -x.
C9_ScalarRoundTrip ==
    \A x \in Scalars : IsRoundTripOf(x) =>
        last.result = Return(IF x.t = "float" /\ x.v[1] < 0 THEN PyFloatV(-x.v[1], x.v[2])
                             ELSE x)

C9_Witness ==
    /\ IsRoundTripOf(PyFloatV(5, 1))
    /\ last.value = PyStrV(<<"0", ".", "5">>)
    /\ last.result = Return(PyFloatV(5, 1))

\* the non-empty segments of the string between commas, trimmed and passed
\* through subtype
ExpectedItems(w, subtype) ==
    LET segs == SelectSeq(Split(w, {","}), LAMBDA i : i # <<>>)
    IN  [k \in 1..Len(segs) |-> ApplySubtype(subtype, segs[k])]

\* C10: the cast of a string to list, tuple or set returns that container of
\* the trimmed non-empty segments between commas, in order, each passed
\* through subtype when one is given.
C10_ContainerCast ==
    LET items == ExpectedItems(last.value.v, last.subtype)
        vals == [k \in 1..Len(items) |-> items[k].val]
    IN  (IsCast /\ IsStr(last.value) /\ last.type \in {list, tuple, set}
            /\ \A k \in 1..Len(items) : items[k].kind = "return")
            => last.result = Return(IF last.type = set
                                    THEN [t |-> "set", v |-> Range(vals)]
                                    ELSE [t |-> last.type.v, v |-> vals])

====
